---- MODULE Spec2Model ----
(***************************************************************************)
(* A model of src/plugins/vim/gdkvim.py: the VimWindow communication       *)
(* window (serial counter, callback table, server list, working-directory  *)
(* cache), the VimHidden supervised instance, and the X properties the     *)
(* two sides append frames to.                                             *)
(*                                                                         *)
(* Strings are sequences of one-character atoms, so that formatting        *)
(* ('%x', '%s'), splitting on NUL, ' ', ',' and newline and prefix tests   *)
(* are computed the way the Python code computes them.                     *)
(***************************************************************************)
EXTENDS Naturals, Sequences, FiniteSets, TLC

(***************************************************************************)
(* Characters and strings                                                  *)
(***************************************************************************)
NUL == "NUL"
NL == "NL"
SP == " "
COMMA == ","
DASH == "-"

HexDigits == <<"0","1","2","3","4","5","6","7","8","9","a","b","c","d","e","f">>

\* '%s' % n for a non-negative integer n
RECURSIVE Dec(_)
Dec(n) == IF n < 10 THEN <<HexDigits[n + 1]>>
          ELSE Dec(n \div 10) \o <<HexDigits[(n % 10) + 1]>>

\* '%x' % n for a non-negative integer n
RECURSIVE Hex(_)
Hex(n) == IF n < 16 THEN <<HexDigits[n + 1]>>
          ELSE Hex(n \div 16) \o <<HexDigits[(n % 16) + 1]>>

\* the positions of the character c in s, in increasing order
Positions(s, c) ==
    LET at == {i \in 1..Len(s) : s[i] = c}
    IN  [k \in 1..Cardinality(at) |->
            CHOOSE i \in at : Cardinality({j \in at : j < i}) = k - 1]

\* str.split(sep) for a one-character separator: always at least one piece
Split(s, sep) ==
    LET pos == Positions(s, sep)
        n == Len(pos)
    IN  [k \in 1..(n + 1) |->
            SubSeq(s, IF k = 1 THEN 1 ELSE pos[k - 1] + 1,
                      IF k = n + 1 THEN Len(s) ELSE pos[k] - 1)]

\* str.split(sep, 1): at most one cut
SplitOnce(s, sep) ==
    LET pos == Positions(s, sep)
    IN  IF pos = <<>> THEN <<s>>
        ELSE <<SubSeq(s, 1, pos[1] - 1), SubSeq(s, pos[1] + 1, Len(s))>>

\* str.startswith(prefix)
StartsWith(s, prefix) ==
    /\ Len(s) >= Len(prefix)
    /\ SubSeq(s, 1, Len(prefix)) = prefix

\* s[k:] for k >= 0
DropFirst(s, k) == IF k >= Len(s) THEN <<>> ELSE SubSeq(s, k + 1, Len(s))

\* str.count(c) > 0
Contains(s, c) == \E i \in 1..Len(s) : s[i] = c

\* str.splitlines(): cut at newlines, no empty piece after a final newline
SplitLines(s) ==
    LET pieces == Split(s, NL)
    IN  IF pieces[Len(pieces)] = <<>> THEN SubSeq(pieces, 1, Len(pieces) - 1)
        ELSE pieces

\* sep.join(parts)
RECURSIVE Join(_, _)
Join(parts, sep) ==
    IF parts = <<>> THEN <<>>
    ELSE IF Len(parts) = 1 THEN parts[1]
    ELSE parts[1] \o <<sep>> \o Join(Tail(parts), sep)

\* the concatenation of a sequence of strings
RECURSIVE Concat(_)
Concat(parts) == IF parts = <<>> THEN <<>> ELSE parts[1] \o Concat(Tail(parts))

Range(f) == {f[i] : i \in DOMAIN f}

(***************************************************************************)
(* Program constants                                                       *)
(***************************************************************************)
InitSerial == 1
SerialLimit == 65530
RecycleSerial == 1

\* the cork of an expression evaluation and of a key send
CorkExpr == <<"c">>
CorkKeys == <<"k">>

\* the prefix that hides a server from the internal server list
HiddenPrefix == <<"_", "_">>

\* the expressions the library itself evaluates
ExprServerlist == <<"s","e","r","v","e","r","l","i","s","t","(",")">>
ExprGetcwd == <<"g","e","t","c","w","d","(",")">>

\* the key sequences of send_esc and send_ret
KeysEsc == <<"<","C","-","\\",">","<","C","-","N",">">>
KeysRet == <<"<","R","E","T","U","R","N",">">>

(***************************************************************************)
(* MessageCodec: generate_message and parse_message                        *)
(***************************************************************************)
\* The serial after generate_message's increment: `if cork:` tests the cork
\* string itself, which is 'c' or 'k'.
\* a generate_message that recycles the serial one step late
NextSerialLate(serial, cork) ==
    IF Len(cork) > 0
    THEN IF serial > SerialLimit THEN RecycleSerial ELSE serial + 1
    ELSE serial

NextSerial(serial, cork) ==
    IF Len(cork) > 0
    THEN IF serial + 1 > SerialLimit THEN RecycleSerial ELSE serial + 1
    ELSE serial

\* '\0%s\0-n %s\0-s %s\0-r %x %s\0' % (cork, server, message, sourceid, serial)
FormatMessage(cork, server, message, sourceid, serial) ==
    <<NUL>> \o cork
        \o <<NUL, DASH, "n", SP>> \o server
        \o <<NUL, DASH, "s", SP>> \o message
        \o <<NUL, DASH, "r", SP>> \o Hex(sourceid) \o <<SP>> \o Dec(serial)
        \o <<NUL>>

\* generate_message: the new value of self.serial and the generated string
GenerateMessage(serial, server, cork, message, sourceid) ==
    LET s == NextSerial(serial, cork)
    IN  [serial |-> s, mp |-> FormatMessage(cork, server, message, sourceid, s)]

\* a dictionary keyed by strings
EmptyDict == [k \in {} |-> <<>>]
Put(d, k, v) == [x \in (DOMAIN d) \cup {k} |-> IF x = k THEN v ELSE d[x]]
KeyT == <<"t">>
KeyS == <<"s">>
KeyR == <<"r">>
KeyN == <<"n">>

\* one turn of parse_message's loop: t is a field split on ' '
ParseField(attrs, t) ==
    IF Len(t[1]) > 0
    THEN IF StartsWith(t[1], <<DASH>>)
         THEN IF Len(t) > 1 THEN Put(attrs, DropFirst(t[1], 1), t[2]) ELSE attrs
         ELSE Put(attrs, KeyT, t[1])
    ELSE attrs

RECURSIVE ParseFields(_, _)
ParseFields(fields, attrs) ==
    IF fields = <<>> THEN attrs
    ELSE ParseFields(Tail(fields), ParseField(attrs, Split(fields[1], SP)))

\* parse_message: the attributes of a received message
ParseMessage(message) == ParseFields(Split(message, NUL), EmptyDict)

(***************************************************************************)
(* Names, windows and bounds of the model                                  *)
(***************************************************************************)
EditorA == <<"e","d","i","t","o","r","_","A">>
EditorB == <<"v","2">>
Peers == {EditorA, EditorB}

\* VimHidden.name: '__%s_PIDA_HIDDEN' % time.time(), fixed at construction
TimeToken == <<"1",".","5">>
HiddenName == HiddenPrefix \o TimeToken
                \o <<"_","P","I","D","A","_","H","I","D","D","E","N">>

\* a hidden instance that belongs to some other process
OtherHidden == HiddenPrefix \o <<"9">>

Names == Peers \cup {HiddenName}

\* X window ids: of this process's window, and of each server's window
OwnXid == 419
WidOf == (EditorA :> 500) @@ (EditorB :> 77) @@ (HiddenName :> 1033)

\* how many things are addressed to the process in one run: calls of the
\* application, announcements and repeated replies of peers
MaxOps == 3
\* how many times the timer fires in one run
MaxTicks == 2
\* expression calls are counted up to this number ("that many or more")
CountCap == 3
\* the messages the application sends
UserExprs == {<<"a", SP, "b">>}
UserKeys == {<<"i">>}
UserExCmds == {<<"q">>}
\* the server the application talks to, the one that announces, and the
\* ones that start and exit during a run (the others run throughout)
Targets == {EditorA}
Announcers == {EditorA}
Comers == {EditorA}

\* what peers answer and announce
CwdResult == <<"/","w",SP,"d">>
ExprResult == <<"4">>
Announcements == {<<"b",COMMA,"3",COMMA,"/","f">>, <<"r","e","a","d","y">>}

(***************************************************************************)
(* State                                                                   *)
(***************************************************************************)
VARIABLES
    serial,       \* VimWindow.serial
    callbacks,    \* VimWindow.callbacks: '%s' % serial -> callback
    server_cwds,  \* VimWindow.server_cwds: server name -> working directory
    oldservers,   \* VimWindow.oldservers: None, or the last list fed
    pid,          \* VimHidden.pid: 0 for None
    child,        \* the forked hidden Vim: none, running, exited, reaped
    registry,     \* the names in the root window's VimRegistry property
    alive,        \* the names whose window exists and has the Vim property
    peerComm,     \* the Comm property of each server's window
    comm,         \* the Comm property of this process's window
    epoch,        \* how often the serial was recycled
    nexpr,        \* how many expression frames were sent, up to CountCap
    answered,     \* the serials answered since a call was last sent under them
    ops,          \* how many things were addressed to the process
    ticks,        \* how many times the timer fired
    last          \* what the last handler did

vars == <<serial, callbacks, server_cwds, oldservers, pid, child, registry,
          alive, peerComm, comm, epoch, nexpr, answered,
          ops, ticks, last>>

\* a call is identified by the recycling epoch and the serial it was sent under
NoCall == <<0, 0>>
\* callbacks: the application's, get_hidden_serverlist.cb, fetch_cwd.gotcwd;
\* NoCb is the False that send_keys passes
NoCb == [kind |-> "none", server |-> <<>>, call |-> NoCall]
UserCb == [kind |-> "user", server |-> <<>>, call |-> NoCall]
ServersCb == [kind |-> "servers", server |-> <<>>, call |-> NoCall]
GotCwd(servername) == [kind |-> "gotcwd", server |-> servername, call |-> NoCall]

None == [set |-> FALSE, list |-> <<>>]
Some(list) == [set |-> TRUE, list |-> list]

\* what a handler is observed to do
\*   cb, arg  the callback called and its argument
\*   key      the serial a reply frame was looked up under
\*   by       the call that the dispatched reply answers
\*   again    whether that serial had been answered since a call was sent under it
\*   got      the list gotservers was called with
\*   evt      the events raised with do_evt, log the number of do_log calls
\*   err      the exception that ended the handler
\*   probe    what is_alive's waitpid gave, ret what is_alive returned
\*   started  whether start() forked, over the pid held when it forked
\*   to       the server the last send_message was addressed to
Quiet == [cb |-> NoCb, key |-> <<>>, arg |-> <<>>, by |-> NoCall,
          again |-> FALSE, got |-> None, evt |-> <<>>, log |-> 0,
          err |-> "none", probe |-> "none", ret |-> "none",
          started |-> "no", over |-> 0, to |-> <<>>]

\* the state a handler works on: the program's fields and what it was seen to do
Here == [serial |-> serial, callbacks |-> callbacks, server_cwds |-> server_cwds,
         oldservers |-> oldservers, pid |-> pid, child |-> child,
         peerComm |-> peerComm, epoch |-> epoch, nexpr |-> nexpr,
         answered |-> answered, obs |-> Quiet]

Commit(st, op) ==
    /\ serial' = st.serial
    /\ callbacks' = st.callbacks
    /\ server_cwds' = st.server_cwds
    /\ oldservers' = st.oldservers
    /\ pid' = st.pid
    /\ child' = st.child
    /\ peerComm' = st.peerComm
    /\ epoch' = st.epoch
    /\ nexpr' = st.nexpr
    /\ answered' = st.answered
    /\ last' = [op |-> op, obs |-> st.obs]

(***************************************************************************)
(* Sending: get_server_wid, get_server_window, send_message                *)
(***************************************************************************)
\* get_rootwindow_serverlist: name -> window id, from the VimRegistry property
GetRootwindowServerlist == [n \in registry |-> WidOf[n]]

\* get_server_wid: the window id, or 0 for None
GetServerWid(servername) ==
    IF servername \in DOMAIN GetRootwindowServerlist
    THEN GetRootwindowServerlist[servername]
    ELSE 0

\* a window handle taken to be good whatever became of the window
ServerWindowOkAlways(wid) == TRUE

\* `sw and sw.property_get("Vim")` for sw = get_server_window(wid)
ServerWindowOk(wid) == \E n \in alive : WidOf[n] = wid

Min(a, b) == IF a < b THEN a ELSE b

\* send_message(servername, message, asexpr, callback)
SendMessage(st, servername, message, asexpr, callback) ==
    LET wid == GetServerWid(servername)
        cork == IF asexpr THEN CorkExpr ELSE CorkKeys
        g == GenerateMessage(st.serial, servername, cork, message, OwnXid)
        e == IF g.serial < st.serial THEN st.epoch + 1 ELSE st.epoch
        n == IF asexpr THEN Min(st.nexpr + 1, CountCap) ELSE st.nexpr
        frame == [bytes |-> g.mp, call |-> <<e, g.serial>>,
                  nth |-> IF asexpr THEN n ELSE 0, msg |-> message]
    IN  IF wid # 0 /\ ServerWindowOk(wid)
        THEN [st EXCEPT
                !.obs.to = servername,
                !.serial = g.serial,
                !.peerComm[servername] = Append(@, frame),
                !.callbacks =
                    IF asexpr /\ callback.kind # "none"
                    THEN Put(@, Dec(g.serial),
                             [callback EXCEPT !.call = <<e, g.serial>>])
                    ELSE @,
                !.epoch = e,
                !.nexpr = n,
                !.answered = IF asexpr THEN @ \ {Dec(g.serial)} ELSE @]
        ELSE [st EXCEPT !.obs.to = servername]

SendExpr(st, server, message, callback) ==
    SendMessage(st, server, message, TRUE, callback)

SendKeys(st, server, message) == SendMessage(st, server, message, FALSE, NoCb)

SendEsc(st, server) == SendKeys(st, server, KeysEsc)

SendRet(st, server) == SendKeys(st, server, KeysRet)

\* a send_ex that sends the return before the command
SendExReturnFirst(st, server, message) ==
    SendKeys(SendRet(SendEsc(st, server), server), server, <<":">> \o message)

SendEx(st, server, message) ==
    SendRet(SendKeys(SendEsc(st, server), server, <<":">> \o message), server)

(***************************************************************************)
(* VimHidden: start and is_alive                                           *)
(***************************************************************************)
\* a start() that forks without looking at the pid it holds
StartAlways(st) ==
    [st EXCEPT !.pid = 1, !.child = "running", !.obs.started = "forked",
               !.obs.over = st.pid]

\* start(): fork the hidden Vim unless a pid is held
Start(st) ==
    IF st.pid = 0
    THEN [st EXCEPT !.pid = 1, !.child = "running", !.obs.started = "forked",
                    !.obs.over = st.pid]
    ELSE [st EXCEPT !.obs.started = "held"]

\* what os.waitpid(self.pid, os.WNOHANG) can give for the child
ProbeOutcomes(c) ==
    CASE c = "running" -> {"alive"}
      [] c = "exited" -> {"exited"}
      [] OTHER -> {"error"}

\* an is_alive() that keeps the pid of a child it found exited
IsAliveKeepsPid(st, outcome) ==
    IF st.pid # 0
    THEN CASE outcome = "error" ->
                [st |-> [st EXCEPT !.obs.probe = "error", !.obs.ret = "false"],
                 ret |-> FALSE]
           [] outcome = "exited" ->
                [st |-> [st EXCEPT !.obs.probe = "exited", !.obs.ret = "false"],
                 ret |-> FALSE]
           [] OTHER ->
                [st |-> [st EXCEPT !.obs.probe = "alive", !.obs.ret = "true"],
                 ret |-> TRUE]
    ELSE [st |-> [st EXCEPT !.obs.probe = "nopid", !.obs.ret = "false"],
          ret |-> FALSE]

\* an is_alive() that clears the pid when waitpid raises as well
IsAliveErrClears(st, outcome) ==
    IF st.pid # 0
    THEN CASE outcome = "error" ->
                [st |-> [st EXCEPT !.pid = 0, !.child = "none",
                                   !.obs.probe = "error", !.obs.ret = "false"],
                 ret |-> FALSE]
           [] outcome = "exited" ->
                [st |-> [st EXCEPT !.pid = 0, !.child = "none",
                                   !.obs.probe = "exited", !.obs.ret = "false"],
                 ret |-> FALSE]
           [] OTHER ->
                [st |-> [st EXCEPT !.obs.probe = "alive", !.obs.ret = "true"],
                 ret |-> TRUE]
    ELSE [st |-> [st EXCEPT !.obs.probe = "nopid", !.obs.ret = "false"],
          ret |-> FALSE]

\* is_alive(): the state after the probe and the value returned
IsAlive(st, outcome) ==
    IF st.pid # 0
    THEN CASE outcome = "error" ->
                [st |-> [st EXCEPT !.obs.probe = "error", !.obs.ret = "false"],
                 ret |-> FALSE]
           [] outcome = "exited" ->
                [st |-> [st EXCEPT !.pid = 0, !.child = "none",
                                   !.obs.probe = "exited", !.obs.ret = "false"],
                 ret |-> FALSE]
           [] OTHER ->
                [st |-> [st EXCEPT !.obs.probe = "alive", !.obs.ret = "true"],
                 ret |-> TRUE]
    ELSE [st |-> [st EXCEPT !.obs.probe = "nopid", !.obs.ret = "false"],
          ret |-> FALSE]

(***************************************************************************)
(* Discovery: fetch_serverlist, get_hidden_serverlist and their callbacks  *)
(***************************************************************************)
EvtServerlist == <<"s","e","r","v","e","r","l","i","s","t">>

\* do_evt(name, *args)
DoEvt(st, name, args) ==
    [st EXCEPT !.obs.evt = Append(@, [name |-> name, args |-> args])]

\* do_log(...)
DoLog(st) == [st EXCEPT !.obs.log = @ + 1]

\* feed_serverlist(serverlist)
FeedServerlist(st, serverlist) == DoEvt(st, EvtServerlist, <<serverlist>>)

\* fetch_cwd(servername)
FetchCwd(st, servername) ==
    SendExpr(st, servername, ExprGetcwd, GotCwd(servername))

\* gotservers' loop over the server list
RECURSIVE FetchMissingCwds(_, _)
FetchMissingCwds(st, serverlist) ==
    IF serverlist = <<>> THEN st
    ELSE FetchMissingCwds(
            IF serverlist[1] \notin DOMAIN st.server_cwds
            THEN FetchCwd(st, serverlist[1])
            ELSE st,
            Tail(serverlist))

\* a comparison that always finds the list changed
ListChangedAlways(serverlist, old) == TRUE

\* `serverlist != self.oldservers`
ListChanged(serverlist, old) == ~(old.set /\ old.list = serverlist)

\* fetch_serverlist.gotservers(serverlist)
\* a gotservers that feeds a changed list without storing it
GotServersForgets(st, serverlist) ==
    LET st1 == FetchMissingCwds([st EXCEPT !.obs.got = Some(serverlist)],
                                serverlist)
    IN  IF ListChanged(serverlist, st1.oldservers)
        THEN FeedServerlist(st1, serverlist)
        ELSE st1

GotServers(st, serverlist) ==
    LET st1 == FetchMissingCwds([st EXCEPT !.obs.got = Some(serverlist)],
                                serverlist)
    IN  IF ListChanged(serverlist, st1.oldservers)
        THEN FeedServerlist([st1 EXCEPT !.oldservers = Some(serverlist)],
                            serverlist)
        ELSE st1

\* the list without the filter on the '__' prefix
VisibleServersUnfiltered(servers) == servers

\* [svr for svr in servers if not svr.startswith('__')]
RECURSIVE VisibleServers(_)
VisibleServers(servers) ==
    IF servers = <<>> THEN <<>>
    ELSE IF ~StartsWith(servers[1], HiddenPrefix)
         THEN <<servers[1]>> \o VisibleServers(Tail(servers))
         ELSE VisibleServers(Tail(servers))

\* get_hidden_serverlist.cb(serverstring)
HiddenCb(st, serverstring) ==
    GotServers(st, VisibleServers(SplitLines(serverstring)))

\* fetch_cwd.gotcwd(cwd)
GotCwdCb(st, servername, cwd) ==
    [st EXCEPT !.server_cwds = Put(@, servername, cwd)]

\* a get_hidden_serverlist that queries whatever is_alive returns
GetHiddenServerlistAlways(st, outcome) ==
    SendExpr(IsAlive(st, outcome).st, HiddenName, ExprServerlist, ServersCb)

\* get_hidden_serverlist(gotservers), given what the probe gives
GetHiddenServerlist(st, outcome) ==
    LET a == IsAlive(st, outcome)
    IN  IF a.ret
        THEN SendExpr(a.st, HiddenName, ExprServerlist, ServersCb)
        ELSE Start(a.st)

(***************************************************************************)
(* Dispatcher: cb_notify, cb_reply, cb_reply_async                         *)
(***************************************************************************)
Raise(st, error) == [st EXCEPT !.obs.err = error]

\* calling the callback stored under key with the reply's result
Invoke(st, key, arg, by) ==
    LET cb == st.callbacks[key]
        st1 == [st EXCEPT !.obs.cb = cb, !.obs.arg = arg, !.obs.by = by,
                          !.obs.again = key \in st.answered,
                          !.answered = @ \cup {key}]
    IN  CASE cb.kind = "servers" -> HiddenCb(st1, arg)
          [] cb.kind = "gotcwd" -> GotCwdCb(st1, cb.server, arg)
          [] OTHER -> st1

\* a cb_reply_async that hands the rest over without splitting it
CbReplyAsyncUnsplit(st, data) ==
    IF Contains(data, COMMA)
    THEN LET p == SplitOnce(data, COMMA)
         IN  DoEvt(st, p[1], <<p[2]>>)
    ELSE DoLog(st)

\* cb_reply_async(data)
CbReplyAsync(st, data) ==
    IF Contains(data, COMMA)
    THEN LET p == SplitOnce(data, COMMA)
         IN  DoEvt(st, p[1], Split(p[2], COMMA))
    ELSE DoLog(st)

\* [t for t in data.split('\0') if t.startswith('-n')]
RECURSIVE TaggedN(_)
TaggedN(fields) ==
    IF fields = <<>> THEN <<>>
    ELSE IF StartsWith(fields[1], <<DASH, "n">>)
         THEN <<fields[1]>> \o TaggedN(Tail(fields))
         ELSE TaggedN(Tail(fields))

\* a cb_reply that indexes the table without looking the serial up first
ResolveReplyUnchecked(st, mdict, by) ==
    IF mdict[KeyS] \in DOMAIN st.callbacks
    THEN IF KeyR \notin DOMAIN mdict
         THEN Raise(st, "KeyError")
         ELSE Invoke(st, mdict[KeyS], mdict[KeyR], by)
    ELSE Raise(st, "KeyError")

\* cb_reply's `if mdict['s'] in self.callbacks: self.callbacks[...](mdict['r'])`
ResolveReply(st, mdict, by) ==
    IF mdict[KeyS] \in DOMAIN st.callbacks
    THEN IF KeyR \notin DOMAIN mdict
         THEN Raise(st, "KeyError")
         ELSE Invoke(st, mdict[KeyS], mdict[KeyR], by)
    ELSE st

\* cb_reply(data); by is the call the last frame of data answers
CbReply(st, data, by) ==
    LET mdict == ParseMessage(data)
    IN  IF KeyT \notin DOMAIN mdict THEN Raise(st, "KeyError")
        ELSE IF mdict[KeyT] = <<"r">>
        THEN IF KeyS \notin DOMAIN mdict THEN Raise(st, "KeyError")
             ELSE ResolveReply([st EXCEPT !.obs.key = mdict[KeyS]], mdict, by)
        ELSE LET tagged == TaggedN(Split(data, NUL))
             IN  IF tagged = <<>> THEN Raise(st, "IndexError")
                 ELSE CbReplyAsync(st, DropFirst(tagged[Len(tagged)], 3))

\* the bytes property_get('Comm', pdelete=True) reads: all that was appended
CommData == Concat([i \in 1..Len(comm) |-> comm[i].bytes])

(***************************************************************************)
(* The peers: what a Vim does with its Comm property, and the root window  *)
(***************************************************************************)
\* a reply frame: the type tag r, the serial answered, the result
ReplyBytes(serialStr, result) ==
    <<NUL, "r", NUL, DASH, "s", SP>> \o serialStr
        \o <<NUL, DASH, "r", SP>> \o result \o <<NUL>>

\* a notification frame: the type tag n, the payload, the sender's window
NotifyBytes(payload, wid) ==
    <<NUL, "n", NUL, DASH, "n", SP>> \o payload
        \o <<NUL, DASH, "w", SP>> \o Hex(wid) \o <<NUL>>

\* the fields a Vim reads off a request frame
RequestCork(bytes) == Split(bytes, NUL)[2]
RequestExpr(bytes) == DropFirst(Split(bytes, NUL)[4], 3)
RequestSerial(bytes) == Split(DropFirst(Split(bytes, NUL)[5], 3), SP)[2]

\* frames that are not well formed: no type tag; a reply with no -s; a
\* reply to the first call with no -r; a notification with no -n
Malformed ==
    { <<NUL, DASH, "s", SP>> \o Dec(InitSerial + 1) \o <<NUL>>,
      <<NUL, "r", NUL, DASH, "r", SP, "4", NUL>>,
      <<NUL, "r", NUL, DASH, "s", SP>> \o Dec(InitSerial + 1) \o <<NUL>>,
      <<NUL, "n", NUL, DASH, "w", SP>> \o Hex(WidOf[EditorA]) \o <<NUL>> }

Perms(S) ==
    {f \in [1..Cardinality(S) -> S] : \A i, j \in DOMAIN f : f[i] = f[j] => i = j}

\* serverlist() in the hidden Vim: the live registered servers, one per
\* line; the editors in any order, between the two hidden instances
Listings ==
    {Concat([i \in DOMAIN f |-> f[i] \o <<NL>>]) \o HiddenName \o <<NL>> :
        f \in {<<OtherHidden>> \o g : g \in Perms(alive \cap registry \cap Peers)}}

\* what a Vim answers to an expression, given what serverlist() gives
ResultFor(expr, listing) ==
    IF expr = ExprServerlist THEN listing
    ELSE IF expr = ExprGetcwd THEN CwdResult
    ELSE ExprResult

\* A Vim reads its whole Comm property: it types the keys of the key
\* frames and answers each expression frame, in order.
RECURSIVE RepliesTo(_, _)
RepliesTo(frames, listing) ==
    IF frames = <<>> THEN <<>>
    ELSE LET f == Head(frames)
         IN  IF RequestCork(f.bytes) = CorkExpr
             THEN <<[bytes |-> ReplyBytes(RequestSerial(f.bytes),
                                          ResultFor(RequestExpr(f.bytes), listing)),
                     call |-> f.call, kind |-> "reply",
                     payload |-> ResultFor(RequestExpr(f.bytes), listing)]>>
                  \o RepliesTo(Tail(frames), listing)
             ELSE RepliesTo(Tail(frames), listing)

\* the expression whose reply a callback takes
ExprOf(cb) ==
    CASE cb.kind = "servers" -> ExprServerlist
      [] cb.kind = "gotcwd" -> ExprGetcwd
      [] OTHER -> <<"a", SP, "b">>

Idle == [op |-> "env", obs |-> Quiet]

ProgramVars == <<serial, callbacks, server_cwds, oldservers, pid, epoch, nexpr,
                 answered, ops, ticks>>

(***************************************************************************)
(* Initial states                                                          *)
(***************************************************************************)
\* VimHidden.do_init and VimWindow.do_init, which starts the hidden Vim
Constructed ==
    Start([serial |-> InitSerial, callbacks |-> EmptyDict,
           server_cwds |-> EmptyDict, oldservers |-> None, pid |-> 0,
           child |-> "none", peerComm |-> [n \in Names |-> <<>>],
           epoch |-> 0, nexpr |-> 0, answered |-> {}, obs |-> Quiet])

\* The same process much later: the serial was recycled once and has come
\* round to SerialLimit - 1 again, and the callback of the call sent right
\* after the recycling (serial RecycleSerial), whose peer never answered, is
\* still in the table.
LongRunning ==
    [Constructed EXCEPT
        !.serial = SerialLimit - 1,
        !.callbacks = Put(EmptyDict, Dec(RecycleSerial),
                          [UserCb EXCEPT !.call = <<1, RecycleSerial>>]),
        !.epoch = 1,
        !.nexpr = CountCap]

StartsAs(st) ==
    /\ serial = st.serial
    /\ callbacks = st.callbacks
    /\ server_cwds = st.server_cwds
    /\ oldservers = st.oldservers
    /\ pid = st.pid
    /\ child = st.child
    /\ peerComm = st.peerComm
    /\ epoch = st.epoch
    /\ nexpr = st.nexpr
    /\ answered = st.answered
    /\ last = [op |-> "init", obs |-> st.obs]
    /\ registry = Peers \ Comers
    /\ alive = Peers \ Comers
    /\ comm = <<>>
    /\ ops = 0
    /\ ticks = 0

Init == StartsAs(Constructed)

InitLong == StartsAs(LongRunning)

(***************************************************************************)
(* Actions of the application and of the timer                             *)
(***************************************************************************)
\* send_expr(server, message, callback), with or without a callback
DoSendExpr ==
    /\ ops < MaxOps
    /\ \E server \in Targets, message \in UserExprs, callback \in {UserCb, NoCb} :
        Commit(SendExpr(Here, server, message, callback), "send_expr")
    /\ ops' = ops + 1
    /\ UNCHANGED <<registry, alive, comm, ticks>>

\* send_keys(server, message)
DoSendKeys ==
    /\ ops < MaxOps
    /\ \E server \in Targets, message \in UserKeys :
        Commit(SendKeys(Here, server, message), "send_keys")
    /\ ops' = ops + 1
    /\ UNCHANGED <<registry, alive, comm, ticks>>

\* send_ex(server, message)
DoSendEx ==
    /\ ops < MaxOps
    /\ \E server \in Targets, message \in UserExCmds :
        Commit(SendEx(Here, server, message), "send_ex")
    /\ ops' = ops + 1
    /\ UNCHANGED <<registry, alive, comm, ticks>>

\* the timer calls fetch_serverlist
FetchServerlist ==
    /\ ticks < MaxTicks
    /\ \E outcome \in ProbeOutcomes(child) :
        Commit(GetHiddenServerlist(Here, outcome), "fetch_serverlist")
    /\ ticks' = ticks + 1
    /\ UNCHANGED <<registry, alive, comm, ops>>

\* vim_hidden.start()
DoStart ==
    /\ ops < MaxOps
    /\ Commit(Start(Here), "start")
    /\ ops' = ops + 1
    /\ UNCHANGED <<registry, alive, comm, ticks>>

\* vim_hidden.is_alive()
DoIsAlive ==
    /\ ops < MaxOps
    /\ \E outcome \in ProbeOutcomes(child) :
        Commit(IsAlive(Here, outcome).st, "is_alive")
    /\ ops' = ops + 1
    /\ UNCHANGED <<registry, alive, comm, ticks>>

\* cb_notify: a property-notify event for Comm; read, delete and dispatch
CbNotify ==
    /\ comm # <<>>
    /\ Commit(CbReply(Here, CommData, comm[Len(comm)].call), "cb_notify")
    /\ comm' = <<>>
    /\ UNCHANGED <<registry, alive, ops, ticks>>

(***************************************************************************)
(* Actions of the peers and of the environment                             *)
(***************************************************************************)
\* a Vim handles the property-notify event of its own Comm property
PeerRead ==
    \E p \in alive, listing \in Listings :
        /\ peerComm[p] # <<>>
        /\ comm' = comm \o RepliesTo(peerComm[p], listing)
        /\ peerComm' = [peerComm EXCEPT ![p] = <<>>]
        /\ last' = Idle
        /\ UNCHANGED <<ProgramVars, child, registry, alive>>

\* the reply to a call that was answered already is delivered once more
PeerRepeat ==
    /\ ops < MaxOps
    /\ \E key \in answered, listing \in Listings :
            comm' = Append(comm,
                [bytes |-> ReplyBytes(key, ResultFor(ExprOf(callbacks[key]), listing)),
                 call |-> callbacks[key].call, kind |-> "reply",
                 payload |-> ResultFor(ExprOf(callbacks[key]), listing)])
    /\ ops' = ops + 1
    /\ last' = Idle
    /\ UNCHANGED <<serial, callbacks, server_cwds, oldservers, pid, epoch,
                   nexpr, answered, ticks, child, registry, alive, peerComm>>

\* a Vim announces something of its own accord
PeerAnnounce ==
    /\ ops < MaxOps
    /\ \E p \in alive \cap Announcers, payload \in Announcements :
        comm' = Append(comm, [bytes |-> NotifyBytes(payload, WidOf[p]),
                              call |-> NoCall, kind |-> "notify",
                              payload |-> payload])
    /\ ops' = ops + 1
    /\ last' = Idle
    /\ UNCHANGED <<serial, callbacks, server_cwds, oldservers, pid, epoch,
                   nexpr, answered, ticks, child, registry, alive, peerComm>>

\* some client appends a frame that is not well formed
PeerMalformed ==
    /\ ops < MaxOps
    /\ \E bytes \in Malformed :
        comm' = Append(comm, [bytes |-> bytes, call |-> NoCall,
                              kind |-> "malformed", payload |-> <<>>])
    /\ ops' = ops + 1
    /\ last' = Idle
    /\ UNCHANGED <<serial, callbacks, server_cwds, oldservers, pid, epoch,
                   nexpr, answered, ticks, child, registry, alive, peerComm>>

\* a Vim starts and registers with the root window
PeerStart ==
    \E p \in Comers \ alive :
        /\ registry' = registry \cup {p}
        /\ alive' = alive \cup {p}
        /\ last' = Idle
        /\ UNCHANGED <<ProgramVars, child, peerComm, comm>>

\* a Vim exits; it does not unregister, and its window's properties go
PeerExit ==
    \E p \in Comers \cap alive :
        /\ alive' = alive \ {p}
        /\ peerComm' = [peerComm EXCEPT ![p] = <<>>]
        /\ last' = Idle
        /\ UNCHANGED <<ProgramVars, child, registry, comm>>

\* some Vim drops a dead server's entry from the registry
RegistryPurge ==
    \E n \in (registry \cap Comers) \ alive :
        /\ registry' = registry \ {n}
        /\ last' = Idle
        /\ UNCHANGED <<ProgramVars, child, alive, peerComm, comm>>

\* the forked hidden Vim has come up and registered
HiddenReady ==
    /\ child = "running"
    /\ HiddenName \notin alive
    /\ registry' = registry \cup {HiddenName}
    /\ alive' = alive \cup {HiddenName}
    /\ last' = Idle
    /\ UNCHANGED <<ProgramVars, child, peerComm, comm>>

\* the hidden Vim exits (the user closes it, or it crashes)
ChildExit ==
    /\ child = "running"
    /\ child' = "exited"
    /\ alive' = alive \ {HiddenName}
    /\ peerComm' = [peerComm EXCEPT ![HiddenName] = <<>>]
    /\ last' = Idle
    /\ UNCHANGED <<ProgramVars, registry, comm>>

\* the exited child is collected by the application the pid was handed to
ChildReaped ==
    /\ child = "exited"
    /\ child' = "reaped"
    /\ last' = Idle
    /\ UNCHANGED <<ProgramVars, registry, alive, peerComm, comm>>

\* what the peers and the root window do
Surroundings ==
    \/ PeerRead
    \/ PeerStart
    \/ PeerExit
    \/ RegistryPurge

\* the process while the application uses it, between two timer ticks
NextApp ==
    \/ DoSendExpr
    \/ DoSendKeys
    \/ DoSendEx
    \/ CbNotify
    \/ PeerRepeat
    \/ PeerAnnounce
    \/ Surroundings

\* the process while only its timer runs
NextDisc ==
    \/ FetchServerlist
    \/ CbNotify
    \/ HiddenReady
    \/ ChildExit
    \/ ChildReaped
    \/ Surroundings

\* the dispatcher with frames of every kind coming in
NextProto ==
    \/ DoSendExpr
    \/ CbNotify
    \/ PeerAnnounce
    \/ PeerMalformed
    \/ PeerRead
    \/ PeerStart

\* the hidden Vim and its supervisor, with no editor coming or going
NextHidden ==
    \/ DoStart
    \/ DoIsAlive
    \/ FetchServerlist
    \/ CbNotify
    \/ PeerRead
    \/ HiddenReady
    \/ ChildExit
    \/ ChildReaped

Next ==
    \/ DoSendExpr
    \/ DoSendKeys
    \/ DoSendEx
    \/ DoStart
    \/ DoIsAlive
    \/ FetchServerlist
    \/ CbNotify
    \/ PeerRepeat
    \/ PeerAnnounce
    \/ PeerMalformed
    \/ HiddenReady
    \/ ChildExit
    \/ ChildReaped
    \/ Surroundings

Spec == Init /\ [][Next]_vars

SpecApp == Init /\ [][NextApp]_vars

SpecDisc == Init /\ [][NextDisc]_vars

SpecLong == InitLong /\ [][NextApp]_vars

SpecProto == Init /\ [][NextProto]_vars

SpecHidden == Init /\ [][NextHidden]_vars

\* fetch_serverlist returns True, so the timer keeps calling it
SpecHiddenFair == SpecHidden /\ WF_vars(FetchServerlist)

\* ---------------------------------------------------------------------
\* Reply correlation

Notified == last.op = "cb_notify"
Invoked == Notified /\ last.obs.cb.kind # "none"

\* C1: a callback is invoked only by a reply that answers the call it was
\* registered with, never by the reply to another call that carried the
\* same serial (a later call after the serial recycled, or an expression
\* call sent without a callback).
C1_InvokedByOwnReply ==
    Invoked => last.obs.cb.call = last.obs.by

\* C2: a registered callback is invoked exactly once per serial: a reply
\* for a serial that was already answered since the call was sent invokes
\* nothing, the entry having been removed with the first reply.
C2_InvokedOncePerSerial ==
    Invoked => /\ ~last.obs.again
               /\ last.obs.key \notin DOMAIN callbacks

\* C3: a reply frame whose serial has no entry in the table is dropped:
\* no callback runs, no error is raised, no event is raised, and the
\* serial, the table, the stored server list and the cwd cache stay as
\* they were.
C3_UnknownSerialDropped ==
    [][(/\ last'.op = "cb_notify"
        /\ last'.obs.key # <<>>
        /\ last'.obs.key \notin DOMAIN callbacks)
       => /\ last'.obs.cb = NoCb
          /\ last'.obs.err = "none"
          /\ last'.obs.evt = <<>>
          /\ UNCHANGED <<serial, callbacks, oldservers, server_cwds>>]_vars

C3_DroppedSeen ==
    /\ Notified
    /\ last.obs.key # <<>>
    /\ last.obs.key \notin DOMAIN callbacks
    /\ last.obs.cb = NoCb

\* ---------------------------------------------------------------------
\* Serials and frames

\* the frames the peers have not read yet
Frames == UNION {Range(peerComm[n]) : n \in Names}
FrameSerial(f) == RequestSerial(f.bytes)

\* C4: the serials of synchronous calls count up from 1: the first call
\* carries 1, each later one the previous serial plus one, and the call
\* after serial 65530 carries 1 again.
C4_SerialsCountFromOne ==
    /\ \A f \in Frames : f.nth = 1 => FrameSerial(f) = Dec(1)
    /\ \A f, g \in Frames :
          (f.nth >= 1 /\ g.nth = f.nth + 1 /\ g.nth < CountCap)
          => FrameSerial(g) = Dec(IF f.call[2] >= 65530 THEN 1
                                  ELSE f.call[2] + 1)

\* C5: the second synchronous call, getcwd() sent to editor_A with a
\* callback, is the frame \0c\0-n editor_A\0-s getcwd()\0-r <hex xid> 2\0
\* and its callback is registered under serial 2.
C5_SecondCallFrame ==
    \A i \in DOMAIN peerComm[EditorA] :
        LET f == peerComm[EditorA][i]
        IN  (f.nth = 2 /\ f.msg = ExprGetcwd)
            => /\ f.bytes = <<NUL, "c", NUL, DASH, "n", SP>> \o EditorA
                            \o <<NUL, DASH, "s", SP>> \o ExprGetcwd
                            \o <<NUL, DASH, "r", SP>> \o Hex(OwnXid)
                            \o <<SP, "2", NUL>>
               /\ Dec(2) \in DOMAIN callbacks
               /\ callbacks[Dec(2)].call = f.call

\* C6: sending keys (send_keys, send_esc, send_ret, send_ex) changes
\* neither the serial nor the table of pending callbacks.
C6_KeysLeaveSerialAlone ==
    [][last'.op \in {"send_keys", "send_ex"}
       => UNCHANGED <<serial, callbacks>>]_vars

\* C7: decoding an encoded frame with parse_message gives back the
\* fields it was built from: the cork, the target, the whole payload
\* (spaces included) and the source id with the serial.
C7_RoundTrip ==
    \A n \in Names : \A i \in DOMAIN peerComm[n] :
        LET f == peerComm[n][i]
            d == ParseMessage(f.bytes)
        IN  /\ {KeyT, KeyN, KeyS, KeyR} \subseteq DOMAIN d
            /\ d[KeyT] = (IF f.nth > 0 THEN CorkExpr ELSE CorkKeys)
            /\ d[KeyN] = n
            /\ d[KeyS] = f.msg
            /\ d[KeyR] = Hex(OwnXid) \o <<SP>> \o Dec(f.call[2])

\* ---------------------------------------------------------------------
\* Discovery

GotList == Notified /\ last.obs.got.set
FedServerlist(o) == \E i \in DOMAIN o.evt : o.evt[i].name = EvtServerlist
Visible(list) == \A i \in DOMAIN list : ~StartsWith(list[i], HiddenPrefix)

C9_HiddenNeverListed ==
    /\ Visible(oldservers.list)
    /\ \A i \in DOMAIN last.obs.evt :
          last.obs.evt[i].name = EvtServerlist
          => Visible(last.obs.evt[i].args[1])

C9_HiddenFiltered ==
    /\ Notified
    /\ last.obs.cb.kind = "servers"
    /\ StartsWith(last.obs.arg, HiddenPrefix)
    /\ FedServerlist(last.obs)
    /\ oldservers.list # <<>>

\* C10: a discovery cycle queries the hidden instance only when the
\* probe of that cycle found it alive; otherwise the cycle calls start()
\* and sends nothing: the serial, the table and the peers' queues stay
\* as they were.
C10_QueryOnlyIfAlive ==
    [][last'.op = "fetch_serverlist"
       => /\ peerComm' # peerComm => last'.obs.probe = "alive"
          /\ last'.obs.probe # "alive"
             => /\ last'.obs.started # "no"
                /\ UNCHANGED <<serial, callbacks, peerComm>>]_vars

C10_RestartSeen ==
    /\ last.op = "fetch_serverlist"
    /\ last.obs.probe = "exited"
    /\ last.obs.started = "forked"
    /\ peerComm[HiddenName] = <<>>

\* ---------------------------------------------------------------------
\* The hidden Vim and its supervisor

Spawned == last.obs.started = "forked" /\ pid # 0 /\ child = "running"

\* C11: a hidden Vim that exited is restarted without the caller looking
\* for the death: a discovery tick whose probe finds the exit forks a new
\* one in the same call, and so does a start() once the pid is cleared;
\* with the timer running, a cleared pid is followed by a fork, and after
\* a fork is_alive() returns True unless the new process exits too.
C11_ExitedIsRestarted ==
    /\ [][/\ (last'.op = "fetch_serverlist" /\ last'.obs.probe = "exited")
             => Spawned'
          /\ (last'.op = "start" /\ pid = 0) => Spawned']_vars
    /\ (pid = 0 /\ ticks < MaxTicks) ~> Spawned
    /\ (Spawned /\ ticks < MaxTicks)
          ~> (child # "running" \/ last.obs.ret = "true")

C11_RespawnSeen ==
    /\ last.op = "fetch_serverlist"
    /\ last.obs.probe = "exited"
    /\ Spawned
    /\ ticks >= 1

\* ---------------------------------------------------------------------
\* Sends

Sends == {"send_expr", "send_keys", "send_ex"}
\* the name is not in the root window's registry, or its window is gone
Unresolved(n) == n \notin registry \/ n \notin alive

LastIn == comm[Len(comm)]
NoComma(str) == COMMA \notin Range(str)
\* bufferchange,3,/tmp/foo.txt and its parts
TextBufferchange == <<"b","u","f","f","e","r","c","h","a","n","g","e">>
TextFoo == <<"/","t","m","p","/","f","o","o",".","t","x","t">>
TextReady == <<"r","e","a","d","y">>

\* C13: for a frame that is not a reply, an event is raised if and only
\* if the -n payload has a comma: its name is the text before the first
\* comma and its arguments are the rest split on commas, as
\* bufferchange,3,/tmp/foo.txt gives bufferchange with 3 and
\* /tmp/foo.txt; a payload with no comma, as ready, raises no event and
\* is logged once.
C13_EventIffComma ==
    /\ [][(last'.op = "cb_notify" /\ comm # <<>> /\ LastIn.kind = "notify")
          => LET o == last'.obs
                 p == LastIn.payload
             IN  /\ o.err = "none"
                 /\ o.cb = NoCb
                 /\ IF NoComma(p)
                    THEN o.evt = <<>> /\ o.log = 1
                    ELSE /\ o.log = 0
                         /\ Len(o.evt) = 1
                         /\ NoComma(o.evt[1].name)
                         /\ \A i \in DOMAIN o.evt[1].args :
                               NoComma(o.evt[1].args[i])
                         /\ Join(<<o.evt[1].name>> \o o.evt[1].args, COMMA) = p
         ]_vars
    /\ [](/\ CbReplyAsync([obs |-> Quiet],
                          TextBufferchange \o <<COMMA, "3", COMMA>> \o TextFoo).obs
             = [Quiet EXCEPT !.evt = <<[name |-> TextBufferchange,
                                        args |-> <<(<<"3">>), TextFoo>>]>>]
          /\ CbReplyAsync([obs |-> Quiet], TextReady).obs
             = [Quiet EXCEPT !.log = 1])

C13_EventSeen ==
    /\ Notified
    /\ Len(last.obs.evt) = 1
    /\ Len(last.obs.evt[1].args) = 2
    /\ last.obs.log = 0

\* C14: no inbound frame is fatal: whatever bytes are read, cb_notify
\* returns without raising; and a frame that is not well formed (no type
\* tag, a reply with no -s or no -r, a notification with no -n) calls no
\* callback, raises no event and leaves the table as it was.
C14_NoFrameIsFatal ==
    [][(last'.op = "cb_notify" /\ comm # <<>>)
       => /\ last'.obs.err = "none"
          /\ LastIn.kind = "malformed"
             => /\ last'.obs.cb = NoCb
                /\ last'.obs.evt = <<>>
                /\ callbacks' = callbacks]_vars

\* C15: when the serial of a reply is pending, its callback is called
\* with the whole value of the reply's -r attribute, everything after the
\* first space of the field, further spaces included.
C15_WholeResultPassed ==
    [][(/\ last'.op = "cb_notify"
        /\ comm # <<>>
        /\ LastIn.kind = "reply"
        /\ last'.obs.cb # NoCb)
       => last'.obs.arg = LastIn.payload]_vars

\* ---------------------------------------------------------------------
\* Discovery, continued

C17_IsAliveProbe ==
    [][last'.op = "is_alive"
       => /\ last'.obs.ret = "true" <=> (pid # 0 /\ child = "running")
          /\ last'.obs.ret \in {"true", "false"}
          /\ pid = 0 => pid' = 0 /\ child' = child
          /\ (pid # 0 /\ child = "running") => pid' = pid /\ child' = child
          /\ (pid # 0 /\ child = "exited") => pid' = 0
          /\ (pid # 0 /\ child \notin {"running", "exited"})
             => /\ last'.obs.probe = "error"
                /\ pid' = pid /\ child' = child
          /\ UNCHANGED <<serial, callbacks, server_cwds, oldservers,
                         peerComm, comm>>]_vars

C17_ProbeErrorSeen ==
    /\ last.op = "is_alive"
    /\ last.obs.probe = "error"
    /\ last.obs.ret = "false"
    /\ pid # 0

\* C18: start() does nothing while a pid is held: whatever start(),
\* is_alive(), timer ticks and exits happen, a hidden Vim is forked only
\* when no pid is held, so there is one child for the pid held and none
\* otherwise, and serverlist() is only ever sent to the name made at
\* construction.
C18_StartHeldIsNoOp ==
    /\ [](last.obs.started = "forked" => last.obs.over = 0)
    /\ [](pid = 0 <=> child = "none")
    /\ [](\A n \in Names \ {HiddenName} : \A i \in DOMAIN peerComm[n] :
             peerComm[n][i].msg # ExprServerlist)
    /\ [][(last'.op = "start" /\ pid # 0)
          => /\ last'.obs.started = "held"
             /\ UNCHANGED <<pid, child, serial, callbacks, server_cwds,
                            oldservers, peerComm, comm>>]_vars

C18_HeldStartSeen ==
    /\ last.op = "start"
    /\ last.obs.started = "held"
    /\ pid # 0
    /\ child = "exited"

\* ---------------------------------------------------------------------
\* The size of the table

DecDigits == {HexDigits[d + 1] : d \in 0..9}
DigitValue(c) == CHOOSE d \in 0..9 : HexDigits[d + 1] = c
\* the number a string of decimal digits writes
RECURSIVE NumberOf(_)
NumberOf(str) ==
    IF str = <<>> THEN 0
    ELSE NumberOf(SubSeq(str, 1, Len(str) - 1)) * 10 + DigitValue(str[Len(str)])

\* C19: the serial is always in 1..65530 and every key of the table is
\* the decimal form of a serial in 1..65530, so the table never holds
\* more than 65530 entries however many calls are left unanswered.
C19_TableBounded ==
    /\ serial \in 1..65530
    /\ \A k \in DOMAIN callbacks :
          /\ k # <<>>
          /\ Range(k) \subseteq DecDigits
          /\ NumberOf(k) \in 1..65530
          /\ Dec(NumberOf(k)) = k
    /\ Cardinality(DOMAIN callbacks) <= 65530

C19_RecycledSeen ==
    /\ epoch = 2
    /\ serial <= 2
    /\ \E k \in DOMAIN callbacks : callbacks[k].call[1] = 2

\* ---------------------------------------------------------------------
\* send_ex

\* C20: send_ex(server, cmd) to a server that resolves appends to its
\* Comm property three key frames and nothing else, in this order: the
\* escape to normal mode, ':cmd', the return; nothing is appended
\* between them or to any other server.
C20_SendExThreeFrames ==
    [][(last'.op = "send_ex" /\ ~Unresolved(last'.obs.to))
       => \E cmd \in UserExCmds :
            LET t == last'.obs.to
                n == Len(peerComm[t])
                q == peerComm'[t]
            IN  /\ Len(q) = n + 3
                /\ SubSeq(q, 1, n) = peerComm[t]
                /\ \A i \in 1..3 : RequestCork(q[n + i].bytes) = CorkKeys
                /\ RequestExpr(q[n + 1].bytes) = KeysEsc
                /\ RequestExpr(q[n + 2].bytes) = <<":">> \o cmd
                /\ RequestExpr(q[n + 3].bytes) = KeysRet
                /\ \A o \in Names \ {t} : peerComm'[o] = peerComm[o]
                /\ callbacks' = callbacks]_vars

C20_SendExSeen ==
    /\ last.op = "send_ex"
    /\ Len(peerComm[last.obs.to]) >= 4
    /\ \A i \in 0..2 :
          peerComm[last.obs.to][Len(peerComm[last.obs.to]) - i].nth = 0

\* ---------------------------------------------------------------------
\* The cwd cache

\* the getcwd() calls sent for a server: their callbacks stay in the table
CwdFetches(n) ==
    {k \in DOMAIN callbacks :
        callbacks[k].kind = "gotcwd" /\ callbacks[k].server = n}

\* C21: the working directory of a server is fetched once: discovery
\* sends at most one getcwd() for each name, no second one while the
\* first is unanswered nor after its result is cached, and a cached
\* value is never replaced.
C21_CwdFetchedOnce ==
    /\ [](\A n \in Names : Cardinality(CwdFetches(n)) <= 1)
    /\ [][\A n \in DOMAIN server_cwds :
             /\ n \in DOMAIN server_cwds'
             /\ server_cwds'[n] = server_cwds[n]
             /\ CwdFetches(n)' = CwdFetches(n)]_vars

\* ---------------------------------------------------------------------
\* Discovery going on

\* the pid is held while the probe can only raise: is_alive() returns
\* False and leaves the pid, start() does nothing, and so it stays
Stalled == pid # 0 /\ ProbeOutcomes(child) = {"error"}

\* C22: discovery never stalls for good: with the timer running, whenever
\* the hidden Vim is gone, whether the probe finds it exited or keeps
\* raising for it because it was collected already, a new one is forked
\* in the end, after which queries go out again; the pid is never held
\* with is_alive() False and start() doing nothing for ever.
C22_DiscoveryNeverStalls ==
    /\ [](~Stalled)
    /\ (child # "running" /\ ticks < MaxTicks) ~> Spawned

\* ---------------------------------------------------------------------
\* Frames read together

\* the frames of comm that are replies to calls still in the table
PendingReplies ==
    {i \in DOMAIN comm :
        /\ comm[i].kind = "reply"
        /\ Dec(comm[i].call[2]) \in DOMAIN callbacks
        /\ callbacks[Dec(comm[i].call[2])].call = comm[i].call}
\* the frames of comm that are notifications with a comma
Events == {i \in DOMAIN comm : comm[i].kind = "notify" /\ ~NoComma(comm[i].payload)}

\* C23: no frame is lost when several are appended to the Comm property
\* before cb_notify runs: the one read dispatches each of them, so the
\* callback of every pending reply is called and every notification
\* with a comma raises its own event.
C23_BatchDispatchesAll ==
    [][last'.op = "cb_notify"
       => /\ \A i \in PendingReplies : Dec(comm[i].call[2]) \in answered'
          /\ Len(last'.obs.evt) >= Cardinality(Events)]_vars

====
